---- MODULE Spec2Model ----
(***************************************************************************)
(* Credential lifecycle and account aggregation of factiva.analytics.auth: *)
(* UserKey (userkey.py) and AccountInfo (accountinfo.py).                  *)
(*                                                                         *)
(* Python values are encoded as follows.  An optional value is a sequence  *)
(* of length at most one: None is <<>> and a value v is <<v>>.  An         *)
(* exception is a record [type, msg, cause]; "no exception" has type       *)
(* "none".  An HTTP exchange is a record [sent, status, body]: sent=FALSE  *)
(* is a transport-level failure raised by the request helper.              *)
(***************************************************************************)
EXTENDS Integers, Sequences, FiniteSets, TLC

VARIABLES
    pc,           \* position of the caller / of the running constructor
    target,       \* class whose constructor was invoked last
    arg,          \* argument handed to that constructor
    env,          \* FACTIVA_USERKEY as the constructor read it (None: unset or not read)
    key,          \* UserKey.key
    cloud_token,  \* UserKey.cloud_token
    user_key,     \* AccountInfo.user_key (a reference to the UserKey)
    stats,        \* the thirteen account fields of AccountInfo
    extractions,  \* AccountInfo.extractions
    streams,      \* AccountInfo.streams
    calls,        \* remote operations the constructors issued, in order
    op,           \* the operation that ran last
    flag,         \* its updates / running argument (FALSE if it has none)
    response,     \* the HTTP exchange that operation saw
    raised,       \* the exception it raised, if any
    ret,          \* the value it returned, if any
    nops          \* number of method calls made on the constructed instance

vars == <<pc, target, arg, env, key, cloud_token, user_key, stats,
          extractions, streams, calls, op, flag, response, raised, ret, nops>>

----------------------------------------------------------------------------
(* Bounds *)

\* method calls the caller makes on an instance after constructing it
MaxOps == 1

----------------------------------------------------------------------------
(* Python values *)

None == <<>>
Some(v) == <<v>>

NoExc == [type |-> "none", msg |-> "", cause |-> "none"]
Exc(t, m, c) == [type |-> t, msg |-> m, cause |-> c]

KeyLength == 32

DUMMY_KEY == "abcd1234abcd1234abcd1234abcd1234"

\* secrets a caller may supply: too short, empty, valid length, too long
Secrets == {"abc", "", DUMMY_KEY, "abcd1234abcd1234abcd1234abcd12345"}

\* constructor arguments: nothing, a string, or a UserKey instance
StrArg(s) == [kind |-> "str", val |-> s]
NoArg == [kind |-> "none", val |-> ""]
UserKeyArg == [kind |-> "UserKey", val |-> ""]

----------------------------------------------------------------------------
(* The HTTP request helper *)

StatusCodes == {200, 401, 403, 404, 500}

TransportFailure == [sent |-> FALSE, status |-> 0, body |-> "none"]
Reply(s, b) == [sent |-> TRUE, status |-> s, body |-> b]

TransportError == Exc("RuntimeError", "API Request failed. Unable to get a response.", "none")

----------------------------------------------------------------------------
(* UserKey *)

\* config.load_environment_value('FACTIVA_USERKEY'), wrapped as in __init__
ResolveKey(a, e) ==
    IF a.kind # "none" THEN [raised |-> NoExc, key |-> a]
    ELSE IF e = None
         THEN [raised |-> Exc("ValueError",
                   "key parameter not provided and environment variable FACTIVA_USERKEY not set.",
                   "Exception"),
               key |-> a]
         ELSE [raised |-> NoExc, key |-> StrArg(e[1])]

\* CheckLength rejecting only keys shorter than 32
CheckLength_ShortOnly(k) ==
    IF k.kind = "UserKey"
    THEN Exc("TypeError", "object of type 'UserKey' has no len()", "none")
    ELSE IF Len(k.val) < KeyLength
         THEN Exc("ValueError", "Factiva User-Key has the wrong length", "none")
         ELSE NoExc

\* len(key) != 32, where len() of an object without __len__ is a TypeError
CheckLength(k) ==
    IF k.kind = "UserKey"
    THEN Exc("TypeError", "object of type 'UserKey' has no len()", "none")
    ELSE IF Len(k.val) # KeyLength
         THEN Exc("ValueError", "Factiva User-Key has the wrong length", "none")
         ELSE NoExc

\* UserKey.__init__ up to and including self.key = key
UserKeyInitPrefix(a, e) ==
    LET r == ResolveKey(a, e) IN
    IF r.raised # NoExc THEN [raised |-> r.raised, key |-> None]
    ELSE IF CheckLength(r.key) # NoExc THEN [raised |-> CheckLength(r.key), key |-> None]
    ELSE [raised |-> NoExc, key |-> Some(r.key.val)]

\* is_active taking every status below 500 for success
is_active_Below500(r) ==
    IF ~r.sent THEN [raised |-> TransportError, ret |-> "None"]
    ELSE IF r.status < 500 THEN [raised |-> NoExc, ret |-> "True"]
    ELSE [raised |-> NoExc, ret |-> "False"]

\* UserKey.is_active / AccountInfo.is_active
is_active(r) ==
    IF ~r.sent THEN [raised |-> TransportError, ret |-> "None"]
    ELSE IF r.status = 200 THEN [raised |-> NoExc, ret |-> "True"]
    ELSE [raised |-> NoExc, ret |-> "False"]

\* python's  parent[key]  on a parsed JSON value: the exception it raises
Subscript(parentKind, childKind) ==
    IF parentKind # "obj" THEN "TypeError"
    ELSE IF childKind = "missing" THEN "KeyError"
    ELSE "none"

\* the texts a service may put in streaming_credentials
TOKEN_TEXT == "{\"private_key\": \"pk1\"}"
CredTexts == {TOKEN_TEXT, "null", "not json"}

\* json.loads(text) on a credentials text
json_loads(text) ==
    IF text = TOKEN_TEXT THEN [raised |-> "none", value |-> Some("pk1")]
    ELSE IF text = "null" THEN [raised |-> "none", value |-> None]
    ELSE [raised |-> "JSONDecodeError", value |-> None]

\* body of the token endpoint: the kind of response.json(), of ['data'],
\* of ['attributes'], of ['streaming_credentials'], and the text when the
\* last one is a string
TokenBody(root, d, a, s, t) ==
    [root |-> root, data |-> d, attributes |-> a, streaming_credentials |-> s, text |-> t]

TokenBodies ==
    {TokenBody("nonjson", "missing", "missing", "missing", ""),
     TokenBody("null", "missing", "missing", "missing", ""),
     TokenBody("obj", "missing", "missing", "missing", ""),
     TokenBody("obj", "null", "missing", "missing", ""),
     TokenBody("obj", "obj", "missing", "missing", ""),
     TokenBody("obj", "obj", "null", "missing", ""),
     TokenBody("obj", "obj", "obj", "missing", ""),
     TokenBody("obj", "obj", "obj", "null", ""),
     TokenBody("obj", "obj", "obj", "num", "")}
    \cup {TokenBody("obj", "obj", "obj", "str", t) : t \in CredTexts}

\* response.json()['data']['attributes']['streaming_credentials']
TokenLookup(b) ==
    IF b.root = "nonjson" THEN "JSONDecodeError"
    ELSE IF Subscript(b.root, b.data) # "none" THEN Subscript(b.root, b.data)
    ELSE IF Subscript(b.data, b.attributes) # "none" THEN Subscript(b.data, b.attributes)
    ELSE Subscript(b.attributes, b.streaming_credentials)

\* json.loads(None), or of any other value that is not text
LoadsTypeError == Exc("TypeError", "the JSON object must be str, bytes or bytearray", "none")

\* StoreToken without the test for None
StoreToken_NoNoneTest(b, tok) ==
    IF b.streaming_credentials # "str"
    THEN [raised |-> LoadsTypeError, cloud_token |-> tok, ret |-> "None"]
    ELSE IF json_loads(b.text).raised # "none"
    THEN [raised |-> Exc(json_loads(b.text).raised, "", "none"), cloud_token |-> tok, ret |-> "None"]
    ELSE [raised |-> NoExc, cloud_token |-> json_loads(b.text).value, ret |-> "True"]

\* get_cloud_token once streaming_credentials has been read: the value
\* is decoded and stored unless it is None
StoreToken(b, tok) ==
    IF b.streaming_credentials = "null"
    THEN [raised |-> NoExc, cloud_token |-> tok, ret |-> "True"]
    ELSE IF b.streaming_credentials # "str"
    THEN [raised |-> LoadsTypeError, cloud_token |-> tok, ret |-> "None"]
    ELSE IF json_loads(b.text).raised # "none"
    THEN [raised |-> Exc(json_loads(b.text).raised, "", "none"), cloud_token |-> tok, ret |-> "None"]
    ELSE [raised |-> NoExc, cloud_token |-> json_loads(b.text).value, ret |-> "True"]

\* UserKey.get_cloud_token
get_cloud_token(r, tok) ==
    IF ~r.sent THEN [raised |-> TransportError, cloud_token |-> tok, ret |-> "None"]
    ELSE IF r.status = 401
    THEN [raised |-> Exc("RuntimeError",
              "Extraction API authentication failed for given credentials header:{'user-key': key}",
              "none"),
          cloud_token |-> tok, ret |-> "None"]
    ELSE IF TokenLookup(r.body) = "TypeError"
    THEN [raised |-> Exc("ValueError",
              "Unable to get a cloud token for the given key. This account might have limited access.",
              "TypeError"),
          cloud_token |-> tok, ret |-> "None"]
    ELSE IF TokenLookup(r.body) # "none"
    THEN [raised |-> Exc(TokenLookup(r.body), "", "none"), cloud_token |-> tok, ret |-> "None"]
    ELSE StoreToken(r.body, tok)

TaxonomyResponses == {TransportFailure} \cup {Reply(s, "") : s \in StatusCodes}
TokenResponses ==
    {TransportFailure} \cup {Reply(200, b) : b \in TokenBodies}
    \cup {Reply(401, TokenBody("obj", "missing", "missing", "missing", "")),
          Reply(403, TokenBody("obj", "obj", "obj", "str", TOKEN_TEXT)),
          Reply(500, TokenBody("nonjson", "missing", "missing", "missing", ""))}

----------------------------------------------------------------------------
(* AccountInfo.get_stats *)

MaxCount == 1

\* the account fields in the order get_stats assigns them, each with the
\* JSON key it is read from; "type" is read from data, the others from
\* data.attributes
StatFields ==
    << <<"account_name", "name">>,
       <<"account_type", "type">>,
       <<"active_product", "products">>,
       <<"max_allowed_concurrent_extractions", "max_allowed_concurrent_extracts">>,
       <<"max_allowed_extracted_documents", "max_allowed_document_extracts">>,
       <<"max_allowed_extractions", "max_allowed_extracts">>,
       <<"currently_running_extractions", "cnt_curr_ext">>,
       <<"total_downloaded_bytes", "current_downloaded_amount">>,
       <<"total_extracted_documents", "tot_document_extracts">>,
       <<"total_extractions", "tot_extracts">>,
       <<"total_stream_instances", "tot_topics">>,
       <<"total_stream_subscriptions", "tot_subscriptions">>,
       <<"enabled_company_identifiers", "enabled_company_identifiers">> >>

FieldNames == {StatFields[i][1] : i \in DOMAIN StatFields}
JsonKeys == {StatFields[i][2] : i \in DOMAIN StatFields}

\* the class attributes: every field None
NoStats == [f \in FieldNames |-> None]

\* the account document of the sample response, with the two extraction
\* quota numbers and the two document quota numbers given
AccountDoc(me, te, md, td) ==
    [name |-> Some("Company Corp"),
     type |-> Some("account_with_contract_limits"),
     products |-> Some("DNA"),
     max_allowed_concurrent_extracts |-> Some(10),
     max_allowed_document_extracts |-> Some(md),
     max_allowed_extracts |-> Some(me),
     cnt_curr_ext |-> Some(1),
     current_downloaded_amount |-> Some(427567508),
     tot_document_extracts |-> Some(td),
     tot_extracts |-> Some(te),
     tot_topics |-> Some(0),
     tot_subscriptions |-> Some(0),
     enabled_company_identifiers |-> Some("isin,cusip,sedol,ticker_exchange")]

Counts == 0..MaxCount

CompleteDocs ==
    {AccountDoc(me, te, MaxCount, 0) : me \in Counts, te \in Counts}
    \cup {AccountDoc(MaxCount, 0, md, td) : md \in Counts, td \in Counts}

\* a document with one key left out
Without(doc, k) == [doc EXCEPT ![k] = None]

StatsBody(root, d, a, doc) == [root |-> root, data |-> d, attributes |-> a, doc |-> doc]

EmptyDoc == [k \in JsonKeys |-> None]

StatsBodies ==
    {StatsBody("obj", "obj", "obj", doc) : doc \in CompleteDocs}
    \cup {StatsBody("obj", "obj", "obj", Without(AccountDoc(0, MaxCount, 0, MaxCount), k)) : k \in JsonKeys}
    \cup {StatsBody("nonjson", "missing", "missing", EmptyDoc),
          StatsBody("obj", "missing", "missing", EmptyDoc),
          StatsBody("obj", "null", "missing", EmptyDoc),
          StatsBody("obj", "obj", "missing",
                    [EmptyDoc EXCEPT !["type"] = Some("account_with_contract_limits")])}

\* the exception raised by reading JSON key k of the parsed body
StatLookup(b, k) ==
    IF Subscript(b.root, b.data) # "none" THEN Subscript(b.root, b.data)
    ELSE IF k = "type" THEN (IF b.doc[k] = None THEN "KeyError" ELSE "none")
    ELSE IF Subscript(b.data, b.attributes) # "none" THEN Subscript(b.data, b.attributes)
    ELSE IF b.doc[k] = None THEN "KeyError"
    ELSE "none"

\* the assignments of get_stats from the i-th on, one after the other:
\* the first failing read ends them
RECURSIVE AssignStats(_, _, _)
AssignStats(i, st, b) ==
    IF i > Len(StatFields) THEN [raised |-> "none", stats |-> st]
    ELSE IF StatLookup(b, StatFields[i][2]) # "none"
         THEN [raised |-> StatLookup(b, StatFields[i][2]), stats |-> st]
         ELSE AssignStats(i + 1, [st EXCEPT ![StatFields[i][1]] = b.doc[StatFields[i][2]]], b)

\* the try block of get_stats: json.loads, then the assignments
ParseStats(st, b) ==
    IF b.root = "nonjson" THEN [raised |-> "JSONDecodeError", stats |-> st]
    ELSE AssignStats(1, st, b)

\* AccountInfo.get_stats
get_stats(r, st) ==
    IF ~r.sent THEN [raised |-> TransportError, stats |-> st, ret |-> "None"]
    ELSE IF r.status = 200
    THEN LET p == ParseStats(st, r.body) IN
         IF p.raised # "none"
         THEN [raised |-> Exc("AttributeError", "Unexpected Account Information API Response.", p.raised),
               stats |-> p.stats, ret |-> "None"]
         ELSE [raised |-> NoExc, stats |-> p.stats, ret |-> "True"]
    ELSE IF r.status = 403
    THEN [raised |-> Exc("ValueError", "Factiva User-Key does not exist or inactive.", "none"),
          stats |-> st, ret |-> "None"]
    ELSE [raised |-> Exc("RuntimeError", "Unexpected Account Information API Error", "none"),
          stats |-> st, ret |-> "None"]

StatsResponses ==
    {TransportFailure} \cup {Reply(200, b) : b \in StatsBodies}
    \cup {Reply(s, "") : s \in StatusCodes \ {200}}

\* python truthiness of an optional number
Truthy(x) == x # None /\ x[1] # 0

\* limit - used, where either operand being None is a TypeError
Minus(limit, used) ==
    IF limit = None \/ used = None THEN [raised |-> "TypeError", value |-> None]
    ELSE [raised |-> "none", value |-> Some(limit[1] - used[1])]

\* AccountInfo.remaining_extractions
remaining_extractions(st) ==
    IF Truthy(st.max_allowed_extractions)
    THEN Minus(st.max_allowed_extractions, st.total_extractions)
    ELSE [raised |-> "none", value |-> None]

\* AccountInfo.remaining_documents
remaining_documents(st) ==
    IF Truthy(st.max_allowed_extracted_documents)
    THEN Minus(st.max_allowed_extracted_documents, st.total_extracted_documents)
    ELSE [raised |-> "none", value |-> None]

----------------------------------------------------------------------------
(* Composite identifiers *)

MaxLen == 2

\* str.split('-'): the segments of s from position i on, the current
\* segment having started at position j
RECURSIVE SplitFrom(_, _, _)
SplitFrom(s, j, i) ==
    IF i > Len(s) THEN <<SubSeq(s, j, Len(s))>>
    ELSE IF SubSeq(s, i, i) = "-" THEN <<SubSeq(s, j, i - 1)>> \o SplitFrom(s, i + 1, i + 1)
    ELSE SplitFrom(s, j, i + 1)

split(s) == SplitFrom(s, 1, 1)

\* the sequences over S of length at most n
SeqsUpTo(S, n) == UNION {[1..k -> S] : k \in 0..n}

Max(S) == CHOOSE x \in S : \A y \in S : y <= x

\* Series.str.split('-', expand=True): one row of segments per record, a
\* missing id giving an empty row; shape[1] is the longest row
SplitRows(items) ==
    [i \in DOMAIN items |-> IF items[i].id = None THEN <<>> ELSE split(items[i].id[1])]

Shape1(rows) == Max({0} \cup {Len(rows[i]) : i \in DOMAIN rows})

\* ids_df[c] for row i (c is the zero-based column): rows shorter than
\* the frame are padded with None
Cell(rows, i, c) == IF Len(rows[i]) > c THEN Some(rows[i][c + 1]) ELSE None

\* parsed list body: kind of response.json(), kind of ['data'], the records
ListBody(root, d, items) == [root |-> root, data |-> d, items |-> items]

BadListBodies ==
    {ListBody("nonjson", "missing", <<>>),
     ListBody("obj", "missing", <<>>),
     ListBody("obj", "null", <<>>)}

----------------------------------------------------------------------------
(* AccountInfo.get_extractions *)

\* a flattened extraction record: its id, and whether it carries the
\* 'self' and 'type' envelope fields
ExtRec(id, hasSelf, hasType) == [id |-> id, self |-> hasSelf, type |-> hasType]

ExtractionIds == {"a-b-c-d", "a-b-c-d-S1", "a-b-c-d-S2-f-U2"}

ExtractionRecords == {ExtRec(Some(id), TRUE, TRUE) : id \in ExtractionIds}

ExtractionBodies ==
    {ListBody("obj", "list", items) : items \in SeqsUpTo(ExtractionRecords, MaxLen)}
    \cup {ListBody("obj", "list", <<ExtRec(Some("a-b-c-d-S1"), FALSE, TRUE)>>),
          ListBody("obj", "list", <<ExtRec(Some("a-b-c-d-S1"), TRUE, FALSE)>>),
          ListBody("obj", "list", <<ExtRec(None, TRUE, TRUE)>>)}
    \cup BadListBodies

\* ExtractionRows testing the frame's width with > in place of >=
ExtractionRows_StrictWidth(items) ==
    LET rows == SplitRows(items) IN
    [i \in DOMAIN items |->
        [object_id |-> items[i].id,
         short_id |-> IF Shape1(rows) > 5 THEN Cell(rows, i, 4) ELSE None,
         update_id |-> IF Shape1(rows) > 7 THEN Cell(rows, i, 6) ELSE None]]

\* the rows of extraction_df after the derived columns are added
ExtractionRows(items) ==
    LET rows == SplitRows(items) IN
    [i \in DOMAIN items |->
        [object_id |-> items[i].id,
         short_id |-> IF Shape1(rows) >= 5 THEN Cell(rows, i, 4) ELSE None,
         update_id |-> IF Shape1(rows) >= 7 THEN Cell(rows, i, 6) ELSE None]]

IsOriginal(e) == e.update_id = None

\* get_extractions from response.json() on: the exception that escapes,
\* or the rows handed to SnapshotExtractionList
ParseExtractions(b, updates) ==
    IF b.root = "nonjson" THEN [raised |-> "JSONDecodeError", rows |-> <<>>]
    ELSE IF Subscript(b.root, b.data) # "none"
    THEN [raised |-> Subscript(b.root, b.data), rows |-> <<>>]
    ELSE IF b.data # "list" THEN [raised |-> "TypeError", rows |-> <<>>]
    ELSE IF b.items = <<>> THEN [raised |-> "none", rows |-> <<>>]
    ELSE IF \A i \in DOMAIN b.items : b.items[i].id = None
    THEN [raised |-> "KeyError", rows |-> <<>>]
    ELSE IF (\A i \in DOMAIN b.items : ~b.items[i].self)
            \/ (\A i \in DOMAIN b.items : ~b.items[i].type)
    THEN [raised |-> "KeyError", rows |-> <<>>]
    ELSE [raised |-> "none",
          rows |-> IF updates THEN ExtractionRows(b.items)
                   ELSE SelectSeq(ExtractionRows(b.items), IsOriginal)]

\* AccountInfo.get_extractions
get_extractions(r, updates, ex) ==
    IF ~r.sent THEN [raised |-> TransportError, extractions |-> ex, ret |-> "None"]
    ELSE IF r.status # 200
    THEN IF r.status = 403
         THEN [raised |-> Exc("ValueError", "Factiva API-Key does not exist or inactive.", "none"),
               extractions |-> ex, ret |-> "None"]
         ELSE [raised |-> Exc("RuntimeError", "Unexpected API Error with message: {response.text}", "none"),
               extractions |-> ex, ret |-> "None"]
    ELSE LET p == ParseExtractions(r.body, updates) IN
         IF p.raised # "none"
         THEN [raised |-> Exc(p.raised, "", "none"), extractions |-> ex, ret |-> "None"]
         ELSE [raised |-> NoExc, extractions |-> Some(p.rows), ret |-> "extractions"]

ExtractionResponses ==
    {TransportFailure} \cup {Reply(200, b) : b \in ExtractionBodies}
    \cup {Reply(s, "") : s \in StatusCodes \ {200}}

----------------------------------------------------------------------------
(* AccountInfo.get_streams *)

API_JOB_RUNNING_STATE == "JOB_STATE_RUNNING"

\* a flattened stream record: id, envelope fields, job_status and the
\* ids of the subscription records under 'data'
StreamRec(id, hasSelf, hasType, status, subs) ==
    [id |-> id, self |-> hasSelf, type |-> hasType, job_status |-> status, data |-> subs]

StreamRecords ==
    {StreamRec(Some("a-b-T1-d-S1"), TRUE, TRUE, Some(API_JOB_RUNNING_STATE), Some(<<"x-y-p1-p2-p3">>)),
     StreamRec(Some("a-b-T2-d-S2"), TRUE, TRUE, Some("JOB_STATE_CANCELLED"), Some(<<>>)),
     StreamRec(Some("a-b-T3"), TRUE, TRUE, Some(API_JOB_RUNNING_STATE),
               Some(<<"x-y-p1-p2-p3", "x-y-q1-q2-q3">>))}

StreamBodies ==
    {ListBody("obj", "list", items) : items \in SeqsUpTo(StreamRecords, MaxLen)}
    \cup {ListBody("obj", "list",
              <<StreamRec(Some("a-b-T1-d-S1"), FALSE, TRUE, Some(API_JOB_RUNNING_STATE), Some(<<>>))>>),
          ListBody("obj", "list",
              <<StreamRec(Some("a-b-T1-d-S1"), TRUE, TRUE, Some(API_JOB_RUNNING_STATE), None)>>),
          ListBody("obj", "list",
              <<StreamRec(Some("a-b-T1-d-S1"), TRUE, TRUE, Some(API_JOB_RUNNING_STATE), Some(<<"p2-p3">>))>>),
          ListBody("obj", "list",
              <<StreamRec(Some("a-b-T1-d-S1"), TRUE, TRUE, None, Some(<<>>))>>)}
    \cup BadListBodies

\* extract_subscriptions: the last three segments of each subscription id
SubscriptionId(sid) ==
    LET p == split(sid) IN p[Len(p) - 2] \o "-" \o p[Len(p) - 1] \o "-" \o p[Len(p)]

extract_subscriptions(subs) == [i \in DOMAIN subs |-> SubscriptionId(subs[i])]

\* the exception extract_subscriptions raises on a row's 'data', if any
SubscriptionsError(d) ==
    IF d = None THEN "TypeError"
    ELSE IF \E i \in DOMAIN d[1] : Len(split(d[1][i])) < 3 THEN "IndexError"
    ELSE "none"

\* the rows of stream_df after the derived columns are added
StreamRows(items) ==
    LET rows == SplitRows(items) IN
    [i \in DOMAIN items |->
        [stream_id |-> items[i].id,
         short_id |-> Cell(rows, i, 4),
         stream_type |-> Cell(rows, i, 2),
         subscriptions |-> extract_subscriptions(items[i].data[1]),
         n_subscriptions |-> Len(items[i].data[1]),
         job_status |-> items[i].job_status]]

IsRunning(e) == e.job_status = Some(API_JOB_RUNNING_STATE)

\* the try block of get_streams: the exception it raises, or stream_df
ParseStreams(b, running) ==
    IF b.root = "nonjson" THEN [raised |-> "JSONDecodeError", rows |-> <<>>]
    ELSE IF Subscript(b.root, b.data) # "none"
    THEN [raised |-> Subscript(b.root, b.data), rows |-> <<>>]
    ELSE IF b.data # "list" THEN [raised |-> "TypeError", rows |-> <<>>]
    ELSE IF \A i \in DOMAIN b.items : b.items[i].id = None
    THEN [raised |-> "KeyError", rows |-> <<>>]
    ELSE IF Shape1(SplitRows(b.items)) < 5
    THEN [raised |-> "KeyError", rows |-> <<>>]
    ELSE IF \A i \in DOMAIN b.items : b.items[i].data = None
    THEN [raised |-> "KeyError", rows |-> <<>>]
    ELSE IF \E i \in DOMAIN b.items : SubscriptionsError(b.items[i].data) # "none"
    THEN [raised |-> SubscriptionsError(
                        b.items[CHOOSE i \in DOMAIN b.items :
                                  /\ SubscriptionsError(b.items[i].data) # "none"
                                  /\ \A j \in 1..(i - 1) :
                                        SubscriptionsError(b.items[j].data) = "none"].data),
          rows |-> <<>>]
    ELSE IF (\A i \in DOMAIN b.items : ~b.items[i].self)
            \/ (\A i \in DOMAIN b.items : ~b.items[i].type)
    THEN [raised |-> "KeyError", rows |-> <<>>]
    ELSE IF running /\ \A i \in DOMAIN b.items : b.items[i].job_status = None
    THEN [raised |-> "AttributeError", rows |-> <<>>]
    ELSE [raised |-> "none",
          rows |-> IF running THEN SelectSeq(StreamRows(b.items), IsRunning)
                   ELSE StreamRows(b.items)]

\* StreamsNot200 with no branch for 404
StreamsNot200_No404(status, s) ==
    IF status = 403
    THEN [raised |-> Exc("ValueError", "Factiva API-Key does not exist or inactive.", "none"),
          streams |-> s, ret |-> "None"]
    ELSE [raised |-> Exc("RuntimeError", "Unexpected Get Streams API Error", "none"),
          streams |-> s, ret |-> "None"]

\* the branches of get_streams for a status other than 200
StreamsNot200(status, s) ==
    IF status = 404
    THEN [raised |-> NoExc, streams |-> Some(<<>>), ret |-> "stream_df"]
    ELSE IF status = 403
    THEN [raised |-> Exc("ValueError", "Factiva API-Key does not exist or inactive.", "none"),
          streams |-> s, ret |-> "None"]
    ELSE [raised |-> Exc("RuntimeError", "Unexpected Get Streams API Error", "none"),
          streams |-> s, ret |-> "None"]

\* AccountInfo.get_streams
get_streams(r, running, s) ==
    IF ~r.sent THEN [raised |-> TransportError, streams |-> s, ret |-> "None"]
    ELSE IF r.status = 200
    THEN LET p == ParseStreams(r.body, running) IN
         IF p.raised # "none"
         THEN [raised |-> Exc("AttributeError", "Unexpected Get Streams API Response.", p.raised),
               streams |-> s, ret |-> "None"]
         ELSE [raised |-> NoExc, streams |-> Some(p.rows), ret |-> "stream_df"]
    ELSE StreamsNot200(r.status, s)

StreamResponses ==
    {TransportFailure} \cup {Reply(200, b) : b \in StreamBodies}
    \cup {Reply(s, "") : s \in StatusCodes \ {200}}

----------------------------------------------------------------------------
(* State machine *)

NoResponse == [sent |-> FALSE, status |-> 0, body |-> "none"]

\* values FACTIVA_USERKEY may hold when the constructor looks it up
EnvValues == {None, Some(DUMMY_KEY), Some("abc")}

Init ==
    /\ pc = "start"
    /\ target = "none"
    /\ arg = NoArg
    /\ env = None
    /\ key = None
    /\ cloud_token = None
    /\ user_key = None
    /\ stats = NoStats
    /\ extractions = None
    /\ streams = None
    /\ calls = <<>>
    /\ op = "none"
    /\ flag = FALSE
    /\ response = NoResponse
    /\ raised = NoExc
    /\ ret = "None"
    /\ nops = 0

\* Propagate going on after an exception
Propagate_Swallow(exc, next) == next

\* where a constructor stands after a call it makes: an exception the
\* call raises leaves the constructor, nothing catching it
Propagate(exc, next) == IF exc # NoExc THEN "failed" ELSE next

\* UserKey(a) or AccountInfo(a) is invoked with nothing or a string, the
\* environment holding e: UserKey.__init__ runs up to its first remote call
Construct(t, a, e) ==
    /\ pc = "start"
    /\ a.kind # "UserKey"
    /\ (a.kind = "str" => e = None)
    /\ target' = t
    /\ arg' = a
    /\ env' = e
    /\ op' = "__init__"
    /\ LET r == UserKeyInitPrefix(a, e) IN
         /\ raised' = r.raised
         /\ key' = r.key
         /\ pc' = Propagate(r.raised, "is_active")
    /\ UNCHANGED <<nops, cloud_token, user_key, stats, extractions, streams,
                   calls, flag, response, ret>>

\* AccountInfo(u) is invoked with the UserKey instance u built before:
\* self.user_key = UserKey(u) runs UserKey.__init__ on a fresh instance
ConstructFromUserKey ==
    /\ pc = "ready"
    /\ target = "UserKey"
    /\ target' = "AccountInfo"
    /\ arg' = UserKeyArg
    /\ op' = "__init__"
    /\ LET r == UserKeyInitPrefix(UserKeyArg, env) IN
         /\ raised' = r.raised
         /\ pc' = Propagate(r.raised, "is_active")
    /\ UNCHANGED <<nops, env, key, cloud_token, user_key, stats, extractions, streams,
                   calls, flag, response, ret>>

\* UserKey.__init__: if self.is_active(): ... else: raise
InitIsActive(r) ==
    /\ pc = "is_active"
    /\ calls' = Append(calls, "is_active")
    /\ op' = "is_active"
    /\ response' = r
    /\ LET a == is_active(r) IN
         /\ ret' = a.ret
         /\ raised' = IF a.raised # NoExc THEN a.raised
                      ELSE IF a.ret = "True" THEN NoExc
                      ELSE Exc("ValueError", "Factiva User-Key does not exist or inactive.", "none")
         /\ pc' = IF a.raised = NoExc /\ a.ret = "True" THEN "get_cloud_token" ELSE "failed"
    /\ UNCHANGED <<nops, target, arg, env, key, cloud_token, user_key, stats,
                   extractions, streams, flag>>

\* UserKey.__init__: self.get_cloud_token(); then the constructor returns
\* and AccountInfo.__init__ stores the instance in self.user_key
InitGetCloudToken(r) ==
    /\ pc = "get_cloud_token"
    /\ calls' = Append(calls, "get_cloud_token")
    /\ op' = "get_cloud_token"
    /\ response' = r
    /\ LET g == get_cloud_token(r, cloud_token) IN
         /\ ret' = g.ret
         /\ raised' = g.raised
         /\ cloud_token' = g.cloud_token
         /\ pc' = Propagate(g.raised, IF target = "UserKey" THEN "ready" ELSE "get_stats")
         /\ user_key' = IF g.raised = NoExc /\ target = "AccountInfo"
                        THEN Some("UserKey") ELSE user_key
    /\ UNCHANGED <<nops, target, arg, env, key, stats, extractions, streams, flag>>

\* AccountInfo.__init__: self.get_stats()
InitGetStats(r) ==
    /\ pc = "get_stats"
    /\ calls' = Append(calls, "get_stats")
    /\ op' = "get_stats"
    /\ response' = r
    /\ LET g == get_stats(r, stats) IN
         /\ ret' = g.ret
         /\ raised' = g.raised
         /\ stats' = g.stats
         /\ pc' = Propagate(g.raised, "get_extractions")
    /\ UNCHANGED <<nops, target, arg, env, key, cloud_token, user_key, extractions,
                   streams, flag>>

\* AccountInfo.__init__: self.get_extractions()
InitGetExtractions(r) ==
    /\ pc = "get_extractions"
    /\ calls' = Append(calls, "get_extractions")
    /\ op' = "get_extractions"
    /\ flag' = FALSE
    /\ response' = r
    /\ LET g == get_extractions(r, FALSE, extractions) IN
         /\ ret' = g.ret
         /\ raised' = g.raised
         /\ extractions' = g.extractions
         /\ pc' = Propagate(g.raised, "get_streams")
    /\ UNCHANGED <<nops, target, arg, env, key, cloud_token, user_key, stats, streams>>

\* AccountInfo.__init__: self.get_streams(running=False); the constructor
\* returns
InitGetStreams(r) ==
    /\ pc = "get_streams"
    /\ calls' = Append(calls, "get_streams")
    /\ op' = "get_streams"
    /\ flag' = FALSE
    /\ response' = r
    /\ LET g == get_streams(r, FALSE, streams) IN
         /\ ret' = g.ret
         /\ raised' = g.raised
         /\ streams' = g.streams
         /\ pc' = Propagate(g.raised, "ready")
    /\ UNCHANGED <<nops, target, arg, env, key, cloud_token, user_key, stats, extractions>>

\* is_active() called on the constructed UserKey or AccountInfo
CallIsActive(r) ==
    /\ pc = "ready"
    /\ nops < MaxOps
    /\ nops' = nops + 1
    /\ op' = "is_active"
    /\ flag' = FALSE
    /\ response' = r
    /\ ret' = is_active(r).ret
    /\ raised' = is_active(r).raised
    /\ UNCHANGED <<pc, target, arg, env, key, cloud_token, user_key, stats,
                   extractions, streams, calls>>

\* get_cloud_token() called on the constructed UserKey
CallGetCloudToken(r) ==
    /\ pc = "ready"
    /\ nops < MaxOps
    /\ nops' = nops + 1
    /\ op' = "get_cloud_token"
    /\ flag' = FALSE
    /\ response' = r
    /\ LET g == get_cloud_token(r, cloud_token) IN
         /\ ret' = g.ret
         /\ raised' = g.raised
         /\ cloud_token' = g.cloud_token
    /\ UNCHANGED <<pc, target, arg, env, key, user_key, stats, extractions,
                   streams, calls>>

\* get_stats() called on the constructed AccountInfo
CallGetStats(r) ==
    /\ pc = "ready"
    /\ nops < MaxOps
    /\ nops' = nops + 1
    /\ target = "AccountInfo"
    /\ op' = "get_stats"
    /\ flag' = FALSE
    /\ response' = r
    /\ LET g == get_stats(r, stats) IN
         /\ ret' = g.ret
         /\ raised' = g.raised
         /\ stats' = g.stats
    /\ UNCHANGED <<pc, target, arg, env, key, cloud_token, user_key,
                   extractions, streams, calls>>

\* get_extractions(updates) called on the constructed AccountInfo
CallGetExtractions(r, updates) ==
    /\ pc = "ready"
    /\ nops < MaxOps
    /\ nops' = nops + 1
    /\ target = "AccountInfo"
    /\ op' = "get_extractions"
    /\ flag' = updates
    /\ response' = r
    /\ LET g == get_extractions(r, updates, extractions) IN
         /\ ret' = g.ret
         /\ raised' = g.raised
         /\ extractions' = g.extractions
    /\ UNCHANGED <<pc, target, arg, env, key, cloud_token, user_key, stats,
                   streams, calls>>

\* get_streams(running) called on the constructed AccountInfo
CallGetStreams(r, running) ==
    /\ pc = "ready"
    /\ nops < MaxOps
    /\ nops' = nops + 1
    /\ target = "AccountInfo"
    /\ op' = "get_streams"
    /\ flag' = running
    /\ response' = r
    /\ LET g == get_streams(r, running, streams) IN
         /\ ret' = g.ret
         /\ raised' = g.raised
         /\ streams' = g.streams
    /\ UNCHANGED <<pc, target, arg, env, key, cloud_token, user_key, stats,
                   extractions, calls>>

\* the constructors
NextInit ==
    \/ \E t \in {"UserKey", "AccountInfo"}, a \in {NoArg} \cup {StrArg(s) : s \in Secrets},
          e \in EnvValues : Construct(t, a, e)
    \/ ConstructFromUserKey
    \/ \E r \in TaxonomyResponses : InitIsActive(r)
    \/ \E r \in TokenResponses : InitGetCloudToken(r)
    \/ \E r \in StatsResponses : InitGetStats(r)
    \/ \E r \in ExtractionResponses : InitGetExtractions(r)
    \/ \E r \in StreamResponses : InitGetStreams(r)

\* the methods of a constructed instance
NextCall ==
    \/ \E r \in TaxonomyResponses : CallIsActive(r)
    \/ \E r \in TokenResponses : CallGetCloudToken(r)
    \/ \E r \in StatsResponses : CallGetStats(r)
    \/ \E r \in ExtractionResponses, updates \in BOOLEAN : CallGetExtractions(r, updates)
    \/ \E r \in StreamResponses, running \in BOOLEAN : CallGetStreams(r, running)

Next == NextInit \/ NextCall

\* construction followed by method calls
Spec == Init /\ [][Next]_vars

\* construction alone
SpecInit == Init /\ [][NextInit]_vars

\* the remote operations of AccountInfo(secret), in order
InitOrder == <<"is_active", "get_cloud_token", "get_stats", "get_extractions", "get_streams">>

\* the instance AccountInfo(DUMMY_KEY) returns when the service answers
\* 200 to every request, with token body tb, account document doc,
\* extraction records ex and stream records st
Constructed(tb, doc, ex, st) ==
    /\ pc = "ready"
    /\ target = "AccountInfo"
    /\ arg = StrArg(DUMMY_KEY)
    /\ env = None
    /\ key = UserKeyInitPrefix(StrArg(DUMMY_KEY), None).key
    /\ cloud_token = get_cloud_token(Reply(200, tb), None).cloud_token
    /\ user_key = Some("UserKey")
    /\ stats = get_stats(Reply(200, StatsBody("obj", "obj", "obj", doc)), NoStats).stats
    /\ extractions = get_extractions(Reply(200, ListBody("obj", "list", ex)), FALSE, None).extractions
    /\ streams = get_streams(Reply(200, ListBody("obj", "list", st)), FALSE, None).streams
    /\ calls = InitOrder
    /\ op = "get_streams"
    /\ flag = FALSE
    /\ response = Reply(200, ListBody("obj", "list", st))
    /\ raised = NoExc
    /\ ret = "stream_df"
    /\ nops = 0

\* a few constructed instances: with and without a cloud token, with a
\* zero and a non-zero extraction limit, each holding extractions and
\* streams
InitConstructed ==
    \E tb \in {TokenBody("obj", "obj", "obj", "null", ""),
                TokenBody("obj", "obj", "obj", "str", TOKEN_TEXT)},
       doc \in {AccountDoc(0, 0, MaxCount, 0), AccountDoc(MaxCount, MaxCount, MaxCount, 0)} :
        Constructed(tb, doc,
            <<ExtRec(Some("a-b-c-d"), TRUE, TRUE), ExtRec(Some("a-b-c-d-S1"), TRUE, TRUE)>>,
            <<StreamRec(Some("a-b-T1-d-S1"), TRUE, TRUE, Some(API_JOB_RUNNING_STATE),
                        Some(<<"x-y-p1-p2-p3">>)),
              StreamRec(Some("a-b-T2-d-S2"), TRUE, TRUE, Some("JOB_STATE_CANCELLED"), Some(<<>>))>>)

\* method calls on a constructed AccountInfo
SpecCalls == InitConstructed /\ [][NextCall]_vars

----------------------------------------------------------------------------
(* Properties *)

\* the secret UserKey.__init__ validates: the string given, else the
\* environment value
ResolvedSecret == IF arg.kind = "none" THEN env ELSE Some(arg.val)

WrongLength == Exc("ValueError", "Factiva User-Key has the wrong length", "none")
Inactive == Exc("ValueError", "Factiva User-Key does not exist or inactive.", "none")

Fetches == {"get_stats", "get_extractions", "get_streams"}

\* C1: a secret whose length is not 32 makes construction of a UserKey,
\* or of an AccountInfo from that secret, fail with 'Factiva User-Key has
\* the wrong length' before any remote operation is issued.
C1_WrongLengthFailsBeforeNetwork ==
    (target # "none" /\ arg.kind # "UserKey" /\ ResolvedSecret # None
        /\ Len(ResolvedSecret[1]) # KeyLength)
    => /\ pc = "failed"
       /\ raised = WrongLength
       /\ calls = <<>>
       /\ key = None
       /\ user_key = None

C1_Witness ==
    /\ target = "AccountInfo"
    /\ arg = StrArg("abcd1234abcd1234abcd1234abcd12345")
    /\ pc = "failed"
    /\ raised = WrongLength
    /\ calls = <<>>

\* C2: when the is_active check of a constructor does not come back with
\* status 200, construction fails, with 'Factiva User-Key does not exist
\* or inactive.' whenever a response came back; is_active is the only
\* remote operation issued, cloud_token stays unset and nothing is
\* fetched; get_cloud_token is only ever issued by a constructor right
\* after an is_active that returned 200.
C2_InactiveState ==
    (nops = 0 /\ op = "is_active" /\ ~(response.sent /\ response.status = 200))
    => /\ pc = "failed"
       /\ (response.sent => raised = Inactive)
       /\ raised # NoExc
       /\ calls = <<"is_active">>
       /\ cloud_token = None
       /\ user_key = None
       /\ stats = NoStats /\ extractions = None /\ streams = None

C2_TokenOnlyAfterActive ==
    (calls' # calls /\ op' = "get_cloud_token")
    => (op = "is_active" /\ response.sent /\ response.status = 200)

C2_InactiveKeyFails == [](C2_InactiveState) /\ [][C2_TokenOnlyAfterActive]_vars

C2_Witness ==
    /\ target = "AccountInfo"
    /\ op = "is_active"
    /\ response.sent /\ response.status = 403
    /\ pc = "failed"
    /\ raised = Inactive

\* the UserKey constructor has returned: to the caller, or into
\* AccountInfo.user_key
UserKeyConstructed == (target = "UserKey" /\ pc = "ready") \/ user_key # None

\* C3 as stated: whenever the UserKey constructor has returned, cloud_token
\* is populated.
C3_TokenAlwaysPopulated == UserKeyConstructed => cloud_token # None

\* the constructor's get_cloud_token has just run on this response
TokenStepOf(r) == nops = 0 /\ op = "get_cloud_token" /\ response.sent /\ response = r

\* C3 amended: when the UserKey constructor has returned, cloud_token is
\* populated exactly when the token response carried a streaming_credentials
\* text that decodes to a non-null value; a response with null
\* streaming_credentials lets construction complete with cloud_token unset.
C3_TokenPopulatedIffCredentials ==
    /\ (nops = 0 /\ op = "get_cloud_token" /\ raised = NoExc)
       => /\ UserKeyConstructed
          /\ (cloud_token # None
                <=> (response.body.streaming_credentials = "str"
                      /\ response.body.text # "null"))
    /\ TokenStepOf(Reply(200, TokenBody("obj", "obj", "obj", "null", "")))
       => (raised = NoExc /\ UserKeyConstructed /\ cloud_token = None)

C3_Witness ==
    /\ target = "UserKey"
    /\ pc = "ready"
    /\ key = Some(DUMMY_KEY)
    /\ TokenStepOf(Reply(200, TokenBody("obj", "obj", "obj", "null", "")))
    /\ cloud_token = None

\* C4: AccountInfo constructed from an existing valid UserKey does not fail
\* while normalizing its argument: it goes on to the fetches.
C4_UserKeyArgumentAccepted ==
    (target = "AccountInfo" /\ arg.kind = "UserKey")
    => ~(pc = "failed" /\ op = "__init__")

\* number of remote operations issued before the constructor is at p
Issued(p) ==
    CASE p = "is_active" -> 0
      [] p = "get_cloud_token" -> 1
      [] p = "get_stats" -> 2
      [] p = "get_extractions" -> 3
      [] p = "get_streams" -> 4
      [] OTHER -> 5

C5_OrderState ==
    (target = "AccountInfo" /\ arg.kind # "UserKey")
    => /\ Len(calls) <= Len(InitOrder)
       /\ calls = SubSeq(InitOrder, 1, Len(calls))
       /\ (pc \notin {"failed", "ready"}
             => (raised = NoExc /\ Len(calls) = Issued(pc)))
       /\ (pc = "ready" => (raised = NoExc /\ calls = InitOrder))
       /\ (pc = "failed"
             => /\ raised # NoExc
                /\ (calls = <<>> => op = "__init__")
                /\ (calls # <<>> => op = calls[Len(calls)]))
       /\ (op \in {"get_extractions", "get_streams"} => flag = FALSE)

\* a failed constructor issues nothing more
C5_FailureIsFinal == pc = "failed" => UNCHANGED vars

\* C5: AccountInfo(secret) issues is_active, get_cloud_token, get_stats,
\* get_extractions(updates=False), get_streams(running=False) in this
\* order, each once; the first one that fails ends construction: nothing
\* later is issued and no instance is returned.
C5_InitOrderFailFast == [](C5_OrderState) /\ [][C5_FailureIsFinal]_vars

C5_Witness ==
    /\ target = "AccountInfo"
    /\ arg.kind = "str"
    /\ pc = "failed"
    /\ op = "get_extractions"
    /\ calls = SubSeq(InitOrder, 1, 4)
    /\ stats # NoStats

Loaded(x) == x # None

\* C6: remaining_extractions is max_allowed_extractions - total_extractions
\* whenever both are loaded, a limit of 0 included, and None only if one
\* of them is not loaded; likewise remaining_documents.
C6_RemainingLaw ==
    (target = "AccountInfo" /\ pc = "ready")
    => /\ (Loaded(stats.max_allowed_extractions) /\ Loaded(stats.total_extractions))
          => remaining_extractions(stats).value
               = Some(stats.max_allowed_extractions[1] - stats.total_extractions[1])
       /\ (Loaded(stats.max_allowed_extracted_documents) /\ Loaded(stats.total_extracted_documents))
          => remaining_documents(stats).value
               = Some(stats.max_allowed_extracted_documents[1] - stats.total_extracted_documents[1])

EmptyData == ListBody("obj", "list", <<>>)

\* C7: a 200 response whose data array is empty gives an empty collection
\* and no error, for get_extractions and for get_streams.
C7_EmptyDataIsEmptyCollection ==
    (op \in {"get_extractions", "get_streams"} /\ response.sent
        /\ response.status = 200 /\ response.body = EmptyData)
    => /\ raised = NoExc
       /\ (op = "get_extractions" => extractions = Some(<<>>))
       /\ (op = "get_streams" => streams = Some(<<>>))

\* the status dispatch as seen after a fetch
C8_Dispatch ==
    (op \in Fetches /\ response.sent /\ response.status # 200)
    => IF response.status = 403
       THEN raised.type = "ValueError"
            /\ raised.msg \in {"Factiva User-Key does not exist or inactive.",
                               "Factiva API-Key does not exist or inactive."}
       ELSE IF op = "get_streams" /\ response.status = 404
       THEN raised = NoExc /\ streams = Some(<<>>)
       ELSE raised.type = "RuntimeError"

\* a fetch that ends in one of these errors stores nothing
C8_ErrorFrame ==
    (op' \in Fetches /\ response'.sent /\ response'.status # 200 /\ raised' # NoExc)
    => (stats' = stats /\ extractions' = extractions /\ streams' = streams)

\* C8: on get_stats, get_extractions and get_streams a 403 raises ValueError
\* '... does not exist or inactive.'; a 404 on get_streams gives an empty
\* stream collection and no error; every other non-200 status raises
\* RuntimeError; and on these errors the stored stats, extractions and
\* streams are unchanged.
C8_StatusDispatch == [](C8_Dispatch) /\ [][C8_ErrorFrame]_vars

C8_Witness ==
    /\ nops = 1
    /\ op = "get_streams"
    /\ response.sent /\ response.status = 403
    /\ raised.type = "ValueError"
    /\ streams # None /\ streams # Some(<<>>)
    /\ extractions # None /\ extractions # Some(<<>>)

\* C9: on each fetch, a 200 response whose body lacks the expected
\* structure raises AttributeError 'Unexpected ... API Response.' wrapping
\* the parse error; no raw parse error reaches the caller.
C9_MalformedBodyIsDataFormatError ==
    (op \in Fetches /\ response.sent /\ response.status = 200 /\ raised # NoExc)
    => /\ raised.type = "AttributeError"
       /\ raised.cause # "none"

LimitedAccess ==
    Exc("ValueError",
        "Unable to get a cloud token for the given key. This account might have limited access.",
        "TypeError")

\* the body has data.attributes.streaming_credentials
Conforms(b) ==
    b.root = "obj" /\ b.data = "obj" /\ b.attributes = "obj" /\ b.streaming_credentials # "missing"

\* C10: get_cloud_token raises the authentication failure on 401; on any
\* other response whose JSON body lacks data.attributes.streaming_credentials
\* (an attribute missing at some level, or a null level) it raises
\* ValueError 'Unable to get a cloud token ... limited access'; on a
\* conforming body it returns True, with cloud_token set to the parsed
\* value when streaming_credentials is non-null.
C10_TokenOutcome ==
    (op = "get_cloud_token" /\ response.sent)
    => /\ response.status = 401 => raised.type = "RuntimeError"
       /\ (response.status # 401 /\ response.body.root # "nonjson" /\ ~Conforms(response.body))
          => (raised.type = "ValueError" /\ raised.msg = LimitedAccess.msg)
       /\ (response.status # 401 /\ Conforms(response.body)
             /\ response.body.streaming_credentials = "null")
          => (raised = NoExc /\ ret = "True")
       /\ (response.status # 401 /\ Conforms(response.body)
             /\ response.body.streaming_credentials = "str"
             /\ json_loads(response.body.text).raised = "none")
          => (raised = NoExc /\ ret = "True"
              /\ cloud_token = json_loads(response.body.text).value)

\* the frame of an is_active call: nothing the instance holds changes
C11_IsActiveFrame ==
    (nops' = nops + 1 /\ op' = "is_active")
    => UNCHANGED <<key, cloud_token, user_key, stats, extractions, streams>>

\* the outcome of an is_active call on a constructed instance
C11_IsActiveOutcome ==
    (nops >= 1 /\ op = "is_active")
    => /\ raised = NoExc
       /\ ret = IF response.sent /\ response.status = 200 THEN "True" ELSE "False"

\* C11: is_active, on a UserKey and on an AccountInfo, never raises: it
\* returns True exactly when the taxonomy request comes back with status
\* 200 and False for every other outcome, a transport-level failure
\* included, and it leaves key, cloud_token and every AccountInfo field
\* unchanged.
C11_IsActivePurePredicate == [](C11_IsActiveOutcome) /\ [][C11_IsActiveFrame]_vars

\* the hyphen-delimited segment of id at zero-based index n, absent when
\* id has no such segment
Segment(id, n) == LET p == split(id) IN IF Len(p) > n THEN Some(p[n + 1]) ELSE None

\* the entry expected for one extraction record, from its own id alone
ExpectedExtraction(rec) ==
    [object_id |-> rec.id,
     short_id |-> Segment(rec.id[1], 4),
     update_id |-> Segment(rec.id[1], 6)]

HasNoUpdateId(e) == e.update_id = None

\* the collection expected for the records of a response, in their order
ExpectedExtractions(items, updates) ==
    LET all == [i \in DOMAIN items |-> ExpectedExtraction(items[i])] IN
    IF updates THEN all ELSE SelectSeq(all, HasNoUpdateId)

\* a 200 response to get_extractions carrying a non-empty list of records,
\* each with its id and envelope fields
ExtractionListReturned ==
    /\ op = "get_extractions"
    /\ response.sent /\ response.status = 200
    /\ response.body.root = "obj" /\ response.body.data = "list"
    /\ response.body.items # <<>>
    /\ \A i \in DOMAIN response.body.items :
          /\ response.body.items[i].id # None
          /\ response.body.items[i].self
          /\ response.body.items[i].type

\* C12: for a non-empty extraction list returned with 200, each entry has
\* short_id = segment 4 of its own object_id when that id has at least 5
\* segments (else absent) and update_id = segment 6 when it has at least 7
\* (else absent), whatever the other ids of the response are; with
\* updates=False the stored collection is the sub-sequence of the entries
\* with no update_id, in the order of the response, and with updates=True
\* it is the whole sequence.
C12_ExtractionEntries ==
    ExtractionListReturned
    => /\ raised = NoExc
       /\ extractions = Some(ExpectedExtractions(response.body.items, flag))

C12_Witness ==
    /\ nops = 1
    /\ ExtractionListReturned
    /\ ~flag
    /\ response.body.items
         = <<ExtRec(Some("a-b-c-d-S2-f-U2"), TRUE, TRUE), ExtRec(Some("a-b-c-d"), TRUE, TRUE)>>
    /\ extractions
         = Some(<<[object_id |-> Some("a-b-c-d"), short_id |-> None, update_id |-> None]>>)

\* the last three hyphen-delimited segments of a subscription id, rejoined
LastThree(sid) ==
    LET p == SubSeq(split(sid), Len(split(sid)) - 2, Len(split(sid))) IN
    p[1] \o "-" \o p[2] \o "-" \o p[3]

\* the entry expected for one stream record, from the record alone
ExpectedStream(rec) ==
    [stream_id |-> rec.id,
     short_id |-> Segment(rec.id[1], 4),
     stream_type |-> Segment(rec.id[1], 2),
     subscriptions |-> [i \in DOMAIN rec.data[1] |-> LastThree(rec.data[1][i])],
     n_subscriptions |-> Len(rec.data[1]),
     job_status |-> rec.job_status]

HasRunningState(e) == e.job_status = Some(API_JOB_RUNNING_STATE)

\* the collection expected for the records of a response
ExpectedStreams(items, running) ==
    LET all == [i \in DOMAIN items |-> ExpectedStream(items[i])] IN
    IF running THEN SelectSeq(all, HasRunningState) ELSE all

\* a 200 response to get_streams carrying a non-empty list of records, each
\* with its id, envelope fields, job_status and subscription records
StreamListReturned ==
    /\ op = "get_streams"
    /\ response.sent /\ response.status = 200
    /\ response.body.root = "obj" /\ response.body.data = "list"
    /\ response.body.items # <<>>
    /\ \A i \in DOMAIN response.body.items :
          LET rec == response.body.items[i] IN
          /\ rec.id # None /\ rec.self /\ rec.type
          /\ rec.job_status # None
          /\ rec.data # None
          /\ \A j \in DOMAIN rec.data[1] : Len(split(rec.data[1][j])) >= 3

\* C13: for a non-empty stream list returned with 200, each entry has
\* stream_type = segment 2 of its stream_id, short_id = segment 4 when the
\* id has at least 5 segments and absent otherwise, without error,
\* subscriptions = the last three segments of each subscription id rejoined
\* with hyphens, in order, and n_subscriptions = the number of subscription
\* records; with running=True the stored collection holds exactly the
\* entries whose job_status is the running state.
C13_StreamEntries ==
    StreamListReturned
    => /\ raised = NoExc
       /\ streams = Some(ExpectedStreams(response.body.items, flag))

\* a get_stats that fails leaves every account field as it was
C14_FailedStatsFrame ==
    (op' = "get_stats" /\ raised' # NoExc) => stats' = stats

\* C14: get_stats is atomic: when it fails on any path, a 200 response with
\* a missing attribute key included, every account field keeps the value it
\* had before the call; the fields are all updated from one response or
\* none is.
C14_StatsAtomic == [][C14_FailedStatsFrame]_vars

====
